---- MODULE Spec2Model ----
(***************************************************************************)
(* Model of the object-production parser (parser/object.rs) and of the     *)
(* lexer contract exercised by lexer/tests.rs.                             *)
(*                                                                         *)
(* A token stream is a sequence of tokens; every token is one unit wide,   *)
(* so the token at index p covers the half-open span [p, p+1) and          *)
(* `last_pos` after consuming it is p+1.                                   *)
(***************************************************************************)
EXTENDS Integers, Sequences, FiniteSets, TLC

(* ------------------------------------------------------------------ *)
(* Tokens                                                              *)
(* ------------------------------------------------------------------ *)

\* What `cur!()` sees once the input is exhausted.
EOF == "<eof>"

\* Word tokens: identifiers and keywords (Token::Word).
IdentWords == {"a", "b", "c", "d", "e", "f", "get", "set", "async", "let"}
Keywords == {"for"}
WordToks == IdentWords \cup Keywords
\* Token::Str and Token::Num.
StrToks == {"'s'"}
NumToks == {"1"}
PunctToks == {"{", "}", ",", ":", "(", ")", "=", "*", "[", "]", ";"}
AllToks == WordToks \cup StrToks \cup NumToks \cup PunctToks

(* ------------------------------------------------------------------ *)
(* Parser driver primitives (macros used by object.rs)                 *)
(* ------------------------------------------------------------------ *)

NoVal == [type |-> "None"]
NoErr == [kind |-> "None", lo |-> 0, hi |-> 0]

Ok(p, v) == [ok |-> TRUE, pos |-> p, val |-> v, err |-> NoErr]
Err(kind, lo, hi) ==
    [ok |-> FALSE, pos |-> lo, val |-> NoVal, err |-> [kind |-> kind, lo |-> lo, hi |-> hi]]

\* cur!(): the current token, or EOF.
Cur(toks, p) == IF p <= Len(toks) THEN toks[p] ELSE EOF
\* is!(tok)
Is(toks, p, t) == Cur(toks, p) = t
\* is_one_of!(..)
IsOneOf(toks, p, S) == Cur(toks, p) \in S
\* span!(start): from start to the end of the last consumed token.
Span(start, p) == [lo |-> start, hi |-> p]
\* unexpected!(): a syntax error at the span of the current token.
Unexpected(toks, p) ==
    IF p <= Len(toks) THEN Err("Unexpected", p, p + 1) ELSE Err("Eof", p, p)
\* expect!(tok): eat it or fail.
Expect(toks, p, t) ==
    IF Is(toks, p, t) THEN Ok(p + 1, NoVal)
    ELSE IF p <= Len(toks) THEN Err("Expected", p, p + 1) ELSE Err("Eof", p, p)

\* bump!(): the current token is taken and the cursor moves behind it.
Bump(toks, p) == [tok |-> Cur(toks, p), pos |-> p + 1]
\* A panic (unreachable!(), a failed assert_eq!) unwinds out of the parser: no
\* node and no error value, the call ends with the panic.
PanicKinds == {"unreachable!()", "assert_eq!(params.len(), 1)"}
Panic(kind, p) == Err(kind, p, p)

\* ctx().is_reserved_word(sym)
IsReservedWord(ctx, w) == w \in Keywords \/ (w = "let" /\ ctx.strict)

(* ------------------------------------------------------------------ *)
(* Sequencing                                                           *)
(* ------------------------------------------------------------------ *)

\* `let x = v; F(x)`: v is evaluated once and F applied to its value.
Let(v, F(_)) == CHOOSE y \in { F(x) : x \in {v} } : TRUE
\* `let x = r?; F(x)`: an Err is returned as it is.
Try(r, F(_)) == Let(r, LAMBDA x : IF x.ok THEN F(x) ELSE x)

(* ------------------------------------------------------------------ *)
(* Sub-grammars the object parser calls                                 *)
(* ------------------------------------------------------------------ *)

\* parse_assignment_expr: a primary expression of one token.
ParseAssignmentExpr(toks, ctx, p) ==
    LET t == Cur(toks, p) IN
    IF t \in StrToks \cup NumToks \/ (t \in WordToks /\ ~IsReservedWord(ctx, t))
    THEN Ok(p + 1, [type |-> "Expr", sym |-> t, lo |-> p, hi |-> p + 1])
    ELSE Unexpected(toks, p)

\* parse_binding_element: a binding identifier with an optional default.
ParseBindingElement(toks, ctx, p) ==
    LET t == Cur(toks, p) IN
    IF t \in WordToks /\ ~IsReservedWord(ctx, t)
    THEN IF Is(toks, p + 1, "=")
         THEN Try(ParseAssignmentExpr(toks, ctx, p + 2),
                  LAMBDA d : Ok(d.pos, [type |-> "Pat", sym |-> t, lo |-> p, hi |-> d.pos]))
         ELSE Ok(p + 1, [type |-> "Pat", sym |-> t, lo |-> p, hi |-> p + 1])
    ELSE Unexpected(toks, p)

\* parse_formal_param: one binding identifier.
ParseFormalParam(toks, ctx, p) ==
    LET t == Cur(toks, p) IN
    IF t \in WordToks /\ ~IsReservedWord(ctx, t)
    THEN Ok(p + 1, 1)
    ELSE Unexpected(toks, p)

\* parse_unique_formal_params: identifiers separated by commas, up to `)`.
RECURSIVE ParseFormalParams(_, _, _, _)
ParseFormalParams(toks, ctx, p, n) ==
    IF Is(toks, p, ")") THEN Ok(p, n)
    ELSE Try(IF n = 0 THEN Ok(p, NoVal) ELSE Expect(toks, p, ","),
             LAMBDA q :
                 Try(ParseFormalParam(toks, ctx, q.pos),
                     LAMBDA prm : ParseFormalParams(toks, ctx, prm.pos, n + 1)))

\* The parameter parsers parse_object_prop hands to parse_fn_args_body.
ParseArgs(toks, ctx, p, which) ==
    CASE which = "none" -> Ok(p, 0)
      [] which = "one" -> ParseFormalParam(toks, ctx, p)
      [] OTHER -> ParseFormalParams(toks, ctx, p, 0)

\* The statements of a function body: empty statements up to `}`.
RECURSIVE SkipStmts(_, _)
SkipStmts(toks, p) == IF Is(toks, p, ";") THEN SkipStmts(toks, p + 1) ELSE p

\* parse_fn_args_body(start, parse_args, async, generator):
\* `(` params `)` `{` body `}`.
ParseFnArgsBody(toks, ctx, start, p, which, isAsync, isGenerator) ==
    Try(Expect(toks, p, "("), LAMBDA lp :
    Try(ParseArgs(toks, ctx, lp.pos, which), LAMBDA params :
    Try(Expect(toks, params.pos, ")"), LAMBDA rp :
    Try(Expect(toks, rp.pos, "{"), LAMBDA lb :
    Try(Expect(toks, SkipStmts(toks, lb.pos), "}"), LAMBDA rb :
        Ok(rb.pos,
           [type |-> "Function", lo |-> start, hi |-> rb.pos,
            params |-> params.val, is_async |-> isAsync,
            is_generator |-> isGenerator]))))))

(* ------------------------------------------------------------------ *)
(* parse_prop_name                                                      *)
(* ------------------------------------------------------------------ *)

PropName(type, sym, lo, hi) == [type |-> type, sym |-> sym, lo |-> lo, hi |-> hi]

parse_prop_name(toks, ctx, p) ==
    LET start == p
        t == Cur(toks, p)
    IN  CASE t = EOF -> Err("Eof", p, p)
          [] t \in StrToks ->
                Let(Bump(toks, p), LAMBDA b :
                    IF b.tok \in StrToks
                    THEN Ok(b.pos, PropName("Str", b.tok, start, b.pos))
                    ELSE Panic("unreachable!()", b.pos))
          [] t \in NumToks ->
                Let(Bump(toks, p), LAMBDA b :
                    IF b.tok \in NumToks
                    THEN Ok(b.pos, PropName("Num", b.tok, start, b.pos))
                    ELSE Panic("unreachable!()", b.pos))
          [] t \in WordToks ->
                Let(Bump(toks, p), LAMBDA b :
                    IF b.tok \in WordToks
                    THEN Ok(b.pos, PropName("Ident", b.tok, start, b.pos))
                    ELSE Panic("unreachable!()", b.pos))
          [] t = "[" ->
                Try(ParseAssignmentExpr(toks, ctx, p + 1), LAMBDA e :
                Try(Expect(toks, e.pos, "]"), LAMBDA rb :
                    Ok(rb.pos, PropName("Computed", e.val.sym, start, rb.pos))))
          [] OTHER -> Unexpected(toks, p)

(* ------------------------------------------------------------------ *)
(* parse_object_prop, expression target (Prop)                          *)
(* ------------------------------------------------------------------ *)

\* A parsed property: its variant, key, the tokens [lo, hi) it was parsed from,
\* its value (KeyValue, Assign) and its function (Method, Getter, Setter).
MkProp(kind, key, lo, hi, value, function) ==
    [kind |-> kind, key |-> key, lo |-> lo, hi |-> hi, value |-> value,
     function |-> function]

\* `.map(|function| Prop::Method(..))` and its Getter / Setter siblings.
MapFn(r, kind, key, start) ==
    Try(r, LAMBDA f : Ok(f.pos, MkProp(kind, key, start, f.pos, NoVal, f.val)))

\* The setter's `.map(|Function { params, body, .. }| ..)`: the parameter list
\* is asserted to hold one parameter.
MapSetter(r, key, start) ==
    Try(r, LAMBDA f :
        IF f.val.params # 1 THEN Panic("assert_eq!(params.len(), 1)", f.pos)
        ELSE Ok(f.pos, MkProp("Setter", key, start, f.pos, NoVal, f.val)))

\* A faulty variant: the setter is handed the parser of a whole parameter list.
AccessorOrAsyncSetterParamList(toks, ctx, start, ident, p) ==
    Try(parse_prop_name(toks, ctx, p), LAMBDA key :
        CASE ident.sym = "get" ->
                MapFn(ParseFnArgsBody(toks, ctx, start, key.pos, "none", FALSE, FALSE),
                      "Getter", key.val, start)
          [] ident.sym = "set" ->
                MapSetter(ParseFnArgsBody(toks, ctx, start, key.pos, "unique", FALSE, FALSE),
                          key.val, start)
          [] ident.sym = "async" ->
                MapFn(ParseFnArgsBody(toks, ctx, start, key.pos, "unique", TRUE, FALSE),
                      "Method", key.val, start)
          [] OTHER -> Panic("unreachable!()", key.pos))

\* A faulty variant: the `get` and `set` arms are swapped.
AccessorOrAsyncSwapped(toks, ctx, start, ident, p) ==
    Try(parse_prop_name(toks, ctx, p), LAMBDA key :
        CASE ident.sym = "set" ->
                MapFn(ParseFnArgsBody(toks, ctx, start, key.pos, "none", FALSE, FALSE),
                      "Setter", key.val, start)
          [] ident.sym = "get" ->
                MapFn(ParseFnArgsBody(toks, ctx, start, key.pos, "one", FALSE, FALSE),
                      "Getter", key.val, start)
          [] ident.sym = "async" ->
                MapFn(ParseFnArgsBody(toks, ctx, start, key.pos, "unique", TRUE, FALSE),
                      "Method", key.val, start)
          [] OTHER -> Panic("unreachable!()", key.pos))

\* The branch taken for `get` / `set` / `async` followed by a property name.
AccessorOrAsync(toks, ctx, start, ident, p) ==
    Try(parse_prop_name(toks, ctx, p), LAMBDA key :
        CASE ident.sym = "get" ->
                MapFn(ParseFnArgsBody(toks, ctx, start, key.pos, "none", FALSE, FALSE),
                      "Getter", key.val, start)
          [] ident.sym = "set" ->
                MapSetter(ParseFnArgsBody(toks, ctx, start, key.pos, "one", FALSE, FALSE),
                          key.val, start)
          [] ident.sym = "async" ->
                MapFn(ParseFnArgsBody(toks, ctx, start, key.pos, "unique", TRUE, FALSE),
                      "Method", key.val, start)
          [] OTHER -> Panic("unreachable!()", key.pos))

\* A faulty variant: the reserved-word check is left out.
ShorthandOrAssignUnchecked(toks, ctx, start, ident, p) ==
    IF Is(toks, p, "=")
    THEN Try(ParseAssignmentExpr(toks, ctx, p + 1), LAMBDA value :
             Ok(value.pos, MkProp("Assign", ident, start, value.pos, value.val, NoVal)))
    ELSE Ok(p, MkProp("Shorthand", ident, start, p, NoVal, NoVal))

\* The shorthand branch: the identifier is followed by `=`, `,` or `}`.
ShorthandOrAssign(toks, ctx, start, ident, p) ==
    IF IsReservedWord(ctx, ident.sym)
    THEN Err("ReservedWordInObjShorthandOrPat", ident.lo, ident.hi)
    ELSE IF Is(toks, p, "=")
         THEN Try(ParseAssignmentExpr(toks, ctx, p + 1), LAMBDA value :
                  Ok(value.pos, MkProp("Assign", ident, start, value.pos, value.val, NoVal)))
         ELSE Ok(p, MkProp("Shorthand", ident, start, p, NoVal, NoVal))

\* A faulty variant: `get` / `set` / `async` are taken as markers before the
\* lookahead is inspected.
KeyedPropMarkersFirst(toks, ctx, start, key, p) ==
    IF key.type = "Ident" /\ key.sym \in {"get", "set", "async"} /\ ~Is(toks, p, ":")
    THEN AccessorOrAsync(toks, ctx, start, key, p)
    ELSE IF Is(toks, p, ":")
    THEN Try(ParseAssignmentExpr(toks, ctx, p + 1), LAMBDA value :
             Ok(value.pos, MkProp("KeyValue", key, start, value.pos, value.val, NoVal)))
    ELSE IF Is(toks, p, "(")
    THEN MapFn(ParseFnArgsBody(toks, ctx, start, p, "unique", FALSE, FALSE),
               "Method", key, start)
    ELSE IF key.type # "Ident" THEN Unexpected(toks, p)
    ELSE IF IsOneOf(toks, p, {"=", ",", "}"})
    THEN ShorthandOrAssign(toks, ctx, start, key, p)
    ELSE Unexpected(toks, p)

\* parse_object_prop once the key is parsed and the cursor `p` is behind it.
KeyedProp(toks, ctx, start, key, p) ==
    IF Is(toks, p, ":")
    THEN Try(ParseAssignmentExpr(toks, ctx, p + 1), LAMBDA value :
             Ok(value.pos, MkProp("KeyValue", key, start, value.pos, value.val, NoVal)))
    ELSE IF Is(toks, p, "(")
    THEN MapFn(ParseFnArgsBody(toks, ctx, start, p, "unique", FALSE, FALSE),
               "Method", key, start)
    ELSE IF key.type # "Ident" THEN Unexpected(toks, p)
    ELSE IF IsOneOf(toks, p, {"=", ",", "}"})
    THEN ShorthandOrAssign(toks, ctx, start, key, p)
    ELSE IF key.sym \in {"get", "set", "async"}
    THEN AccessorOrAsync(toks, ctx, start, key, p)
    ELSE Unexpected(toks, p)

parse_object_prop_expr(toks, ctx, p) ==
    LET start == p IN
    IF Is(toks, p, "*")
    THEN Try(parse_prop_name(toks, ctx, p + 1), LAMBDA name :
             MapFn(ParseFnArgsBody(toks, ctx, start, name.pos, "unique", FALSE, TRUE),
                   "Method", name.val, start))
    ELSE Try(parse_prop_name(toks, ctx, p), LAMBDA key :
             KeyedProp(toks, ctx, start, key.val, key.pos))

(* ------------------------------------------------------------------ *)
(* parse_object_prop, pattern target (ObjectPatProp)                    *)
(* ------------------------------------------------------------------ *)

\* A faulty variant: the reserved-word check runs before `=` is looked at, as in
\* the expression target.
PatDefaultCheckedFirst(toks, ctx, key, p) ==
    IF IsReservedWord(ctx, key.sym)
    THEN Err("ReservedWordInObjShorthandOrPat", key.lo, key.hi)
    ELSE IF Is(toks, p, "=")
         THEN ParseAssignmentExpr(toks, ctx, p + 1)
         ELSE Ok(p, NoVal)

\* The default of a shorthand binding: `= expr`, or none after the reserved-word check.
PatDefault(toks, ctx, key, p) ==
    IF Is(toks, p, "=")
    THEN ParseAssignmentExpr(toks, ctx, p + 1)
    ELSE IF IsReservedWord(ctx, key.sym)
         THEN Err("ReservedWordInObjShorthandOrPat", key.lo, key.hi)
         ELSE Ok(p, NoVal)

parse_object_prop_pat(toks, ctx, p) ==
    LET start == p IN
    Try(parse_prop_name(toks, ctx, p), LAMBDA key :
        IF Is(toks, key.pos, ":")
        THEN Try(ParseBindingElement(toks, ctx, key.pos + 1), LAMBDA value :
                 Ok(value.pos,
                    MkProp("KeyValue", key.val, start, value.pos, value.val, NoVal)))
        ELSE IF key.val.type # "Ident" THEN Unexpected(toks, key.pos)
        ELSE Try(PatDefault(toks, ctx, key.val, key.pos), LAMBDA value :
                 Ok(value.pos,
                    MkProp("Assign", key.val, start, value.pos, value.val, NoVal))))

(* ------------------------------------------------------------------ *)
(* parse_object                                                         *)
(* ------------------------------------------------------------------ *)

Targets == {"expr", "pat"}

\* A faulty variant: the pattern target is given the expression implementation.
parse_object_prop_always_expr(toks, target, ctx, p) ==
    parse_object_prop_expr(toks, ctx, p)

\* Self::parse_object_prop: the implementation the target type selects.
parse_object_prop(toks, target, ctx, p) ==
    IF target = "expr" THEN parse_object_prop_expr(toks, ctx, p)
    ELSE parse_object_prop_pat(toks, ctx, p)

\* Self::make_object
make_object(target, span, props) ==
    [type |-> IF target = "expr" THEN "ObjectLit" ELSE "ObjectPat",
     span |-> span, props |-> props]

\* The `while !eat!('}')` loop; `p` is the cursor, `props` the vector so far.
RECURSIVE ObjectLoop(_, _, _, _, _, _)

\* A faulty variant: no `}` is looked for after a comma.
ObjectLoopNoTrailingComma(toks, target, ctx, p, first, props) ==
    IF Is(toks, p, "}") THEN Ok(p + 1, props)
    ELSE Try(IF first THEN Ok(p, NoVal) ELSE Expect(toks, p, ","), LAMBDA comma :
         Try(parse_object_prop(toks, target, ctx, comma.pos), LAMBDA prop :
             ObjectLoop(toks, target, ctx, prop.pos, FALSE, Append(props, prop.val))))

\* A faulty variant: a missing comma is passed over, and a property that fails ends
\* the list.
ObjectLoopRecovering(toks, target, ctx, p, first, props) ==
    IF Is(toks, p, "}") THEN Ok(p + 1, props)
    ELSE LET q == IF ~first /\ Is(toks, p, ",") THEN p + 1 ELSE p IN
         IF ~first /\ Is(toks, q, "}") THEN Ok(q + 1, props)
         ELSE Let(parse_object_prop(toks, target, ctx, q), LAMBDA prop :
                  IF ~prop.ok THEN Ok(q, props)
                  ELSE ObjectLoop(toks, target, ctx, prop.pos, FALSE,
                                  Append(props, prop.val)))

ObjectLoop(toks, target, ctx, p, first, props) ==
    IF Is(toks, p, "}") THEN Ok(p + 1, props)
    ELSE Try(IF first THEN Ok(p, NoVal) ELSE Expect(toks, p, ","), LAMBDA comma :
             IF ~first /\ Is(toks, comma.pos, "}") THEN Ok(comma.pos + 1, props)
             ELSE Try(parse_object_prop(toks, target, ctx, comma.pos), LAMBDA prop :
                      ObjectLoop(toks, target, ctx, prop.pos, FALSE,
                                 Append(props, prop.val))))

\* parse_object::<T>, called with the cursor on `{`.
parse_object(toks, target, ctx, p) ==
    LET start == p IN
    Try(ObjectLoop(toks, target, ctx, p + 1, TRUE, <<>>), LAMBDA loop :
        Ok(loop.pos, make_object(target, Span(start, loop.pos), loop.val)))

(* ------------------------------------------------------------------ *)
(* Inputs                                                               *)
(* ------------------------------------------------------------------ *)

\* Longest arbitrary token stream after the opening `{`.
MaxRaw == 3
\* Most properties in a composed object.
MaxProps == 2

\* The tokens arbitrary streams are drawn from.
RawToks == {"a", "get", "for", "'s'", "{", "}", ",", ":", "(", ")", "=", "*", "[", "]"}

RawStreams ==
    UNION { { <<"{">> \o s : s \in [1..n -> RawToks] } : n \in 0..MaxRaw }

\* Property texts that may stand at any place of a composed object.
CoreFrags ==
    { <<"a", ":", "b">>, <<"b">>, <<"b", "=", "1">>, <<"a", "(", ")", "{", "}">>,
      <<"get", "a", "(", ")", "{", "}">>, <<"get">>, <<"for">>, <<"a", "b">> }

\* Property texts of which a composed object holds at most one.
RareFrags ==
    { <<"a", ":", "1">>, <<"'s'", ":", "a">>, <<"1", ":", "a">>,
      <<"[", "a", "]", ":", "b">>, <<"a", ":", "b", "=", "1">>,
      <<"*", "a", "(", ")", "{", "}">>,
      <<"set", "a", "(", "b", ")", "{", "}">>, <<"set", "a", "(", ")", "{", "}">>,
      <<"async", "a", "(", ")", "{", "}">>,
      <<"get", "(", ")", "{", "}">>, <<"set", "(", "a", ")", "{", "}">>,
      <<"async", "(", ")", "{", "}">>, <<"get", ":", "a">>, <<"get", "=", "1">>,
      <<"get", "'s'", "(", ")", "{", "}">>,
      <<"for", "=", "1">>, <<"for", ":", "a">>, <<"for", "(", ")", "{", "}">>,
      <<"let">>, <<"let", "=", "1">>, <<"'s'">>, <<"1">>, <<"[", "a", "]">>,
      <<"a", ";">>, <<"'s'", "(", ")", "{", "}">>,
      <<"[", "a", "]", "(", "a", ",", "b", ")", "{", ";", "}">> }

Frags == CoreFrags \cup RareFrags

FragSeqs ==
    UNION { { fs \in [1..n -> Frags] :
                Cardinality({i \in 1..n : fs[i] \in RareFrags}) <= 1 } : n \in 0..MaxProps }

\* How the properties of a composed object are laid out between the braces.
Layouts == {"plain", "trailing", "missing", "elision", "leading", "unclosed"}

RECURSIVE Join(_, _, _)
Join(fs, sep, i) ==
    IF i > Len(fs) THEN <<>>
    ELSE (IF i > 1 THEN sep ELSE <<>>) \o fs[i] \o Join(fs, sep, i + 1)

Compose(fs, layout) ==
    CASE layout = "plain" -> <<"{">> \o Join(fs, <<",">>, 1) \o <<"}">>
      [] layout = "trailing" -> <<"{">> \o Join(fs, <<",">>, 1) \o <<",", "}">>
      [] layout = "missing" -> <<"{">> \o Join(fs, <<>>, 1) \o <<"}">>
      [] layout = "elision" -> <<"{">> \o Join(fs, <<",", ",">>, 1) \o <<"}">>
      [] layout = "leading" -> <<"{", ",">> \o Join(fs, <<",">>, 1) \o <<"}">>
      [] layout = "unclosed" -> <<"{">> \o Join(fs, <<",">>, 1)

\* Token index at which property i of a composed object starts.
RECURSIVE FragStart(_, _, _)
FragStart(fs, layout, i) ==
    IF i = 1 THEN (IF layout = "leading" THEN 3 ELSE 2)
    ELSE FragStart(fs, layout, i - 1) + Len(fs[i - 1])
         + (CASE layout = "missing" -> 0 [] layout = "elision" -> 2 [] OTHER -> 1)

\* "{ a: 1, b, c(){}, get d(){}, [e]: f }"
ExampleFrags ==
    << <<"a", ":", "1">>, <<"b">>, <<"c", "(", ")", "{", "}">>,
       <<"get", "d", "(", ")", "{", "}">>, <<"[", "e", "]", ":", "f">> >>

(* ------------------------------------------------------------------ *)
(* State machine: one parse of one token stream                         *)
(* ------------------------------------------------------------------ *)

VARIABLES
    toks,    \* the token stream, its first token the `{` parse_object is called on
    strict,  \* ctx().strict
    frags,   \* the property texts the stream was composed from (<<>> for a raw stream)
    layout,  \* the layout it was composed with ("raw" for a raw stream)
    pc,      \* "ready" before the call, "loop" inside its loop, "done" after it;
             \* in a lexer test, the helper running
    target,  \* the T of parse_object::<T>
    res,     \* what the call returned
    input,   \* the source text the lexer reads, a sequence of characters
    lexer,   \* the lexer: its flags, its cursor and the state it carries
    emitted, \* the items the lexer has returned so far
    loop     \* the locals of a parse_object call in progress: cursor, `first`, `props`

vars == <<toks, strict, frags, layout, pc, target, res, input, lexer, emitted, loop>>

Ctx == [strict |-> strict]

NoRes == [ok |-> FALSE, pos |-> 0, val |-> NoVal, err |-> NoErr]
\* The locals of parse_object: the cursor, `first` and `props`.
Frame(p, first, props) == [p |-> p, first |-> first, props |-> props]
NoFrame == Frame(0, TRUE, <<>>)

Init ==
    /\ \/ /\ toks \in RawStreams
          /\ frags = <<>>
          /\ layout = "raw"
       \/ /\ frags \in FragSeqs
          /\ layout \in Layouts
          /\ toks = Compose(frags, layout)
       \/ /\ frags = ExampleFrags
          /\ layout = "plain"
          /\ toks = Compose(frags, layout)
    /\ strict \in BOOLEAN
    /\ pc = "ready"
    /\ target = "none"
    /\ res = NoRes
    /\ input = <<>>
    /\ lexer = [phase |-> "none"]
    /\ emitted = <<>>
    /\ loop = NoFrame

\* self.parse_object::<Box<Expr>>()
ParseObjectExpr ==
    /\ pc = "ready"
    /\ target' = "expr"
    /\ res' = parse_object(toks, "expr", Ctx, 1)
    /\ pc' = "done"
    /\ UNCHANGED <<toks, strict, frags, layout, input, lexer, emitted, loop>>

\* self.parse_object::<Pat>()
ParseObjectPat ==
    /\ pc = "ready"
    /\ target' = "pat"
    /\ res' = parse_object(toks, "pat", Ctx, 1)
    /\ pc' = "done"
    /\ UNCHANGED <<toks, strict, frags, layout, input, lexer, emitted, loop>>

Next == ParseObjectExpr \/ ParseObjectPat

Spec == Init /\ [][Next]_vars

(* ------------------------------------------------------------------ *)
(* Vocabulary of the properties                                         *)
(* ------------------------------------------------------------------ *)

Done == pc = "done"
NFrags == Len(frags)
\* A composed object whose properties are separated by single commas.
CommaSeparated == layout = "plain" \/ (layout = "trailing" /\ NFrags >= 1)
FragLo(i) == FragStart(frags, layout, i)
FragHi(i) == FragLo(i) + Len(frags[i])

\* The property text f parsed on its own, followed by the token `follow`.
Alone(f, t, follow) == parse_object_prop(f \o <<follow>>, t, Ctx, 1)
\* f is one legal property of target t: parsing it consumes exactly f.
Legal(f, t) ==
    \A follow \in {",", "}"} :
        Alone(f, t, follow).ok /\ Alone(f, t, follow).pos = Len(f) + 1
AllLegal(t) == \A i \in 1..NFrags : Legal(frags[i], t)

\* Entry i of the returned list is the property parsed from property text i.
EntryIs(i) ==
    LET prop == res.val.props[i]
        alone == Alone(frags[i], target, "}").val
    IN  /\ prop.kind = alone.kind
        /\ prop.key.type = alone.key.type
        /\ prop.key.sym = alone.key.sym
        /\ prop.lo = FragLo(i)
        /\ prop.hi = FragHi(i)

NodeType(t) == IF t = "expr" THEN "ObjectLit" ELSE "ObjectPat"

(* ------------------------------------------------------------------ *)
(* Properties                                                           *)
(* ------------------------------------------------------------------ *)

NameEnd(ts, lo) == IF ts[lo] = "[" THEN lo + 3 ELSE lo + 1
Classify(ts, lo) ==
    IF ts[lo] = "*" THEN "Method"
    ELSE LET next == Cur(ts, NameEnd(ts, lo)) IN
         CASE next = ":" -> "KeyValue"
           [] next = "(" -> "Method"
           [] next \in {",", "}"} /\ ts[lo] \in WordToks -> "Shorthand"
           [] next = "=" /\ ts[lo] \in WordToks -> "Assign"
           [] ts[lo] = "get" -> "Getter"
           [] ts[lo] = "set" -> "Setter"
           [] ts[lo] = "async" -> "Method"
           [] OTHER -> "None"

ExampleKinds == <<"KeyValue", "Shorthand", "Method", "Getter", "KeyValue">>
ExampleKeys == <<"a", "b", "c", "d", "e">>
ExampleKeyTypes == <<"Ident", "Ident", "Ident", "Ident", "Computed">>

\* C2: in the expression target every property of the returned list has the
\* variant its surrounding tokens select (`*` Method, `:` KeyValue, `(` Method,
\* identifier then `,` or `}` Shorthand, identifier then `=` Assign, `get` Getter,
\* `set` Setter, `async` Method), and `{ a: 1, b, c(){}, get d(){}, [e]: f }`
\* yields KeyValue(a), Shorthand(b), Method(c), Getter(d), KeyValue(Computed e).
C2_VariantByTokens ==
    (Done /\ target = "expr") =>
        /\ res.ok =>
              \A i \in 1..Len(res.val.props) :
                  LET prop == res.val.props[i] IN
                  /\ prop.kind = Classify(toks, prop.lo)
                  /\ toks[prop.lo] = "*" => prop.function.is_generator
                  /\ prop.kind \in {"Method", "Getter", "Setter"}
                        <=> prop.function # NoVal
        /\ frags = ExampleFrags =>
              /\ res.ok
              /\ Len(res.val.props) = 5
              /\ \A i \in 1..5 :
                    /\ res.val.props[i].kind = ExampleKinds[i]
                    /\ res.val.props[i].key.sym = ExampleKeys[i]
                    /\ res.val.props[i].key.type = ExampleKeyTypes[i]
        /\ (CommaSeparated /\ AllLegal("expr")) =>
              \A i \in 1..NFrags :
                  /\ i <= Len(res.val.props)
                  /\ res.val.props[i].kind = Classify(frags[i] \o <<"}">>, 1)

C2_Witness ==
    /\ Done /\ target = "expr" /\ frags = ExampleFrags
    /\ res.ok /\ res.val.props[4].kind = "Getter"

\* The first property text that is a bare reserved word, all before it legal.
BareReserved(i) ==
    /\ i \in 1..NFrags
    /\ Len(frags[i]) = 1
    /\ IsReservedWord(Ctx, frags[i][1])
    /\ \A j \in 1..(i - 1) : Legal(frags[j], target)

\* C3: a bare shorthand property whose identifier is a reserved word under the
\* current context is rejected with ReservedWordInObjShorthandOrPat carrying the
\* identifier's span, in both targets, and no node is produced.
C3_ReservedShorthandRejected ==
    (Done /\ CommaSeparated) =>
        \A i \in 1..NFrags :
            BareReserved(i) =>
                /\ ~res.ok
                /\ res.val = NoVal
                /\ res.err = [kind |-> "ReservedWordInObjShorthandOrPat",
                              lo |-> FragLo(i), hi |-> FragLo(i) + 1]

C3_Witness ==
    /\ Done /\ toks = <<"{", "for", ",", "}">> /\ target = "pat" /\ layout = "trailing"
    /\ res.err.kind = "ReservedWordInObjShorthandOrPat"

\* Property texts in method, getter or setter shape.
MethodShapes ==
    { <<"a", "(", ")", "{", "}">>, <<"for", "(", ")", "{", "}">>,
      <<"'s'", "(", ")", "{", "}">>,
      <<"[", "a", "]", "(", "a", ",", "b", ")", "{", ";", "}">>,
      <<"get", "(", ")", "{", "}">>, <<"set", "(", "a", ")", "{", "}">>,
      <<"async", "(", ")", "{", "}">>,
      <<"get", "a", "(", ")", "{", "}">>, <<"get", "'s'", "(", ")", "{", "}">>,
      <<"set", "a", "(", "b", ")", "{", "}">> }

\* C4: an object pattern never parses when a property is written in method,
\* getter or setter shape, while the expression target returns an ObjectLit for
\* the identical tokens.
C4_PatternRejectsMethodShapes ==
    (Done /\ CommaSeparated /\ NFrags >= 1) =>
        /\ (target = "pat" /\ \E i \in 1..NFrags : frags[i] \in MethodShapes)
              => (~res.ok /\ res.val = NoVal)
        /\ (target = "expr" /\ \A i \in 1..NFrags : frags[i] \in MethodShapes)
              => (res.ok /\ res.val.type = "ObjectLit" /\ Len(res.val.props) = NFrags)
        /\ (\A i \in 1..NFrags : frags[i] \in MethodShapes)
              => (parse_object(toks, "expr", Ctx, 1).ok
                  /\ ~parse_object(toks, "pat", Ctx, 1).ok)

C4_Witness ==
    /\ Done /\ target = "pat" /\ toks = <<"{", "a", "(", ")", "{", "}", "}">>
    /\ ~res.ok /\ parse_object(toks, "expr", Ctx, 1).ok

\* The returned list tiles the tokens between the braces: entry 1 starts behind
\* `{`, exactly one `,` lies between an entry and the next, the last entry is
\* followed by `}` or by `,` `}`, and every entry is what parse_object_prop
\* returns at its place.
Tiled ==
    LET props == res.val.props
        n == Len(props)
        close == res.pos - 1
    IN  /\ close <= Len(toks)
        /\ toks[close] = "}"
        /\ n = 0 => close = 2
        /\ n > 0 =>
              /\ props[1].lo = 2
              /\ props[n].hi = close \/ (toks[props[n].hi] = "," /\ props[n].hi + 1 = close)
        /\ \A i \in 1..n :
              LET one == parse_object_prop(toks, target, Ctx, props[i].lo) IN
              one.ok /\ one.val = props[i] /\ one.pos = props[i].hi
        /\ \A i \in 1..(n - 1) :
              toks[props[i].hi] = "," /\ props[i + 1].lo = props[i].hi + 1

\* In the stream as composed, property text i is parsed as one property.
InPlace(i) ==
    LET one == parse_object_prop(toks, target, Ctx, FragLo(i)) IN
    one.ok /\ one.pos = FragHi(i)

\* C8: parse_object performs no local recovery: when a property fails to parse,
\* or two properties are not separated by exactly one `,` (missing comma, leading
\* comma, elision), it returns the error and no node; a returned node never holds
\* only the properties parsed before the error.
C8_NoLocalRecovery ==
    Done =>
        /\ res.ok => Tiled
        /\ ~res.ok => (res.val = NoVal /\ res.err.kind # "None")
        /\ (CommaSeparated /\ ~AllLegal(target)) => ~res.ok
        /\ (layout = "missing" /\ NFrags >= 2 /\ \A i \in 1..NFrags : InPlace(i)) => ~res.ok
        /\ layout = "leading" => ~res.ok
        /\ (layout = "elision" /\ NFrags >= 2) => ~res.ok

C8_Witness ==
    /\ Done /\ layout = "missing" /\ NFrags = 2 /\ \A i \in 1..NFrags : InPlace(i)
    /\ target = "expr" /\ ~res.ok /\ res.err.kind = "Expected"

\* A reserved word followed by `=` and a default, all before it legal.
ReservedWithDefault(i) ==
    /\ i \in 1..NFrags
    /\ Len(frags[i]) = 3
    /\ IsReservedWord(Ctx, frags[i][1])
    /\ frags[i][2] = "="
    /\ ParseAssignmentExpr(frags[i], Ctx, 3).ok
    /\ \A j \in 1..(i - 1) : Legal(frags[j], target)

\* C9: the expression target checks the identifier against the reserved words
\* whenever `=`, `,` or `}` follows, before `=` is consumed, so a reserved word
\* followed by `= default` is rejected with ReservedWordInObjShorthandOrPat; the
\* pattern target checks only when no `=` follows, so the same text is accepted
\* as ObjectPatProp::Assign with value Some(default).
C9_ReservedCheckOrder ==
    (Done /\ CommaSeparated) =>
        \A i \in 1..NFrags :
            ReservedWithDefault(i) =>
                /\ target = "expr" =>
                      /\ ~res.ok
                      /\ res.err = [kind |-> "ReservedWordInObjShorthandOrPat",
                                    lo |-> FragLo(i), hi |-> FragLo(i) + 1]
                /\ target = "pat" =>
                      /\ Legal(frags[i], "pat")
                      /\ Alone(frags[i], "pat", "}").val.kind = "Assign"
                      /\ Alone(frags[i], "pat", "}").val.key.sym = frags[i][1]
                      /\ Alone(frags[i], "pat", "}").val.value.sym = frags[i][3]
                      /\ (\A j \in 1..NFrags : Legal(frags[j], "pat")) =>
                            /\ res.ok
                            /\ res.val.props[i].kind = "Assign"
                            /\ res.val.props[i].key.sym = frags[i][1]
                            /\ res.val.props[i].value.type = "Expr"
                            /\ res.val.props[i].value.sym = frags[i][3]

C9_Witness ==
    /\ Done /\ target = "pat" /\ toks = <<"{", "for", "=", "1", "}">> /\ layout = "plain"
    /\ res.ok /\ res.val.props[1].kind = "Assign" /\ res.val.props[1].value.sym = "1"

Markers == {"get", "set", "async"}
AfterName == {":", "(", "=", ",", "}"}

\* C10: in the expression target `get`, `set` and `async` are markers only when
\* the next token is none of `:`, `(`, `=`, `,`, `}`: `get(){}`, `set(a){}`,
\* `async(){}` are Methods named get / set / async, `get: v` is a KeyValue and a
\* bare `get` a Shorthand; any other identifier followed by a token outside these
\* five is a syntax error, as is a string, numeric or computed key not followed by
\* `:` or `(`.
C10_MarkersByLookahead ==
    (Done /\ target = "expr" /\ Len(toks) >= 2) =>
        LET name == parse_prop_name(toks, Ctx, 2)
            next == Cur(toks, name.pos)
            first == res.val.props[1]
        IN  name.ok =>
              /\ (toks[2] \in Markers /\ next \in AfterName /\ res.ok) =>
                    /\ first.key.sym = toks[2]
                    /\ first.key.lo = 2
                    /\ first.kind = (CASE next = ":" -> "KeyValue"
                                       [] next = "(" -> "Method"
                                       [] next = "=" -> "Assign"
                                       [] OTHER -> "Shorthand")
                    /\ next = "(" => ~first.function.is_async
              /\ (toks[2] \in Markers /\ next \in {",", "}"}) => res.ok \/ res.pos > name.pos
              /\ (toks[2] \in Markers /\ next \notin AfterName /\ res.ok) =>
                    /\ first.key.lo = 3
                    /\ first.kind = (CASE toks[2] = "get" -> "Getter"
                                       [] toks[2] = "set" -> "Setter"
                                       [] OTHER -> "Method")
                    /\ first.function.is_async = (toks[2] = "async")
              /\ (toks[2] \in WordToks \ Markers /\ next \notin AfterName) =>
                    (~res.ok /\ res.err.lo = name.pos)
              /\ (name.val.type # "Ident" /\ next \notin {":", "("}) =>
                    (~res.ok /\ res.err.lo = name.pos)
              /\ (CommaSeparated /\ NFrags = 1
                  /\ frags[1] \in { <<"get", "(", ")", "{", "}">>,
                                    <<"set", "(", "a", ")", "{", "}">>,
                                    <<"async", "(", ")", "{", "}">>,
                                    <<"get", ":", "a">>, <<"get">> }) => res.ok

C10_Witness ==
    /\ Done /\ target = "expr" /\ toks = <<"{", "set", "(", "a", ")", "{", "}", "}">>
    /\ res.ok /\ res.val.props[1].kind = "Method" /\ res.val.props[1].key.sym = "set"

(* ------------------------------------------------------------------ *)
(* C11: no internal panic                                               *)
(* ------------------------------------------------------------------ *)

\* The error values the object parser returns.
ErrorKinds == {"Unexpected", "Expected", "Eof", "ReservedWordInObjShorthandOrPat"}
Setters == {i \in DOMAIN res.val.props : res.val.props[i].kind = "Setter"}
SetterWithoutParam == <<"{", "set", "a", "(", ")", "{", "}", "}">>

\* C11: no call of parse_object ends in one of its panics: neither an
\* unreachable!() arm of parse_prop_name or of the get/set/async dispatch nor
\* the setter's assert_eq!(params.len(), 1) is hit; every setter returned has
\* exactly one parameter; and a call that returns no node returns an error
\* value, as `{ set a(){} }` does.
C11_NoInternalPanic ==
    Done =>
        /\ res.err.kind \notin PanicKinds
        /\ res.ok => \A i \in Setters : res.val.props[i].function.params = 1
        /\ ~res.ok => res.val = NoVal /\ res.err.kind \in ErrorKinds
        /\ toks = SetterWithoutParam /\ target = "expr"
              => ~res.ok /\ res.err = [kind |-> "Unexpected", lo |-> 5, hi |-> 6]

\* `{ set a(b){} }` was parsed to a Setter with its one parameter.
C11_Witness ==
    /\ Done /\ target = "expr"
    /\ toks = <<"{", "set", "a", "(", "b", ")", "{", "}", "}">>
    /\ res.ok /\ Setters = {1} /\ res.val.props[1].function.params = 1

(* ------------------------------------------------------------------ *)
(* State machine: parse_object, one loop iteration at a time            *)
(* ------------------------------------------------------------------ *)

\* What one pass through `while !eat!('}') { .. }` does: it returns from
\* parse_object with a result, or it leaves the locals for the next pass.
Return(r) == [done |-> TRUE, res |-> r, frame |-> NoFrame]
Continue(fr) == [done |-> FALSE, res |-> NoRes, frame |-> fr]

\* A faulty variant: the end of the input closes the object.
IterationEofCloses(ts, tgt, ctx, start, fr) ==
    IF Is(ts, fr.p, "}") \/ Is(ts, fr.p, EOF)
    THEN Return(Ok(fr.p + 1, make_object(tgt, Span(start, fr.p + 1), fr.props)))
    ELSE Let(IF fr.first THEN Ok(fr.p, NoVal) ELSE Expect(ts, fr.p, ","), LAMBDA comma :
         IF ~comma.ok THEN Return(comma)
         ELSE IF ~fr.first /\ (Is(ts, comma.pos, "}") \/ Is(ts, comma.pos, EOF))
         THEN Return(Ok(comma.pos + 1,
                        make_object(tgt, Span(start, comma.pos + 1), fr.props)))
         ELSE Let(parse_object_prop(ts, tgt, ctx, comma.pos), LAMBDA prop :
                  IF ~prop.ok THEN Return(prop)
                  ELSE Continue(Frame(prop.pos, FALSE, Append(fr.props, prop.val)))))

\* One pass through the loop of parse_object, and the return behind it.
Iteration(ts, tgt, ctx, start, fr) ==
    IF Is(ts, fr.p, "}")
    THEN Return(Ok(fr.p + 1, make_object(tgt, Span(start, fr.p + 1), fr.props)))
    ELSE Let(IF fr.first THEN Ok(fr.p, NoVal) ELSE Expect(ts, fr.p, ","), LAMBDA comma :
         IF ~comma.ok THEN Return(comma)
         ELSE IF ~fr.first /\ Is(ts, comma.pos, "}")
         THEN Return(Ok(comma.pos + 1,
                        make_object(tgt, Span(start, comma.pos + 1), fr.props)))
         ELSE Let(parse_object_prop(ts, tgt, ctx, comma.pos), LAMBDA prop :
                  IF ~prop.ok THEN Return(prop)
                  ELSE Continue(Frame(prop.pos, FALSE, Append(fr.props, prop.val)))))

\* parse_object::<Box<Expr>> up to its loop: assert_and_bump!('{').
EnterObjectExpr ==
    /\ pc = "ready"
    /\ target' = "expr"
    /\ loop' = Frame(2, TRUE, <<>>)
    /\ pc' = "loop"
    /\ UNCHANGED <<toks, strict, frags, layout, res, input, lexer, emitted>>

\* parse_object::<Pat> up to its loop.
EnterObjectPat ==
    /\ pc = "ready"
    /\ target' = "pat"
    /\ loop' = Frame(2, TRUE, <<>>)
    /\ pc' = "loop"
    /\ UNCHANGED <<toks, strict, frags, layout, res, input, lexer, emitted>>

\* One pass through the loop.
Iterate ==
    /\ pc = "loop"
    /\ \E it \in {Iteration(toks, target, Ctx, 1, loop)} :
          IF it.done
          THEN pc' = "done" /\ res' = it.res /\ loop' = loop
          ELSE pc' = pc /\ res' = res /\ loop' = it.frame
    /\ UNCHANGED <<toks, strict, frags, layout, target, input, lexer, emitted>>

LoopNext == EnterObjectExpr \/ EnterObjectPat \/ Iterate

\* The parser runs on one thread and is not interrupted: a call that can take
\* a step takes it.
LoopSpec == Init /\ [][LoopNext]_vars /\ WF_vars(LoopNext)

(* ------------------------------------------------------------------ *)
(* C12: parse_object finishes                                           *)
(* ------------------------------------------------------------------ *)

\* The index of the `}` that closes the `{` at index 1, 0 if there is none.
RECURSIVE ClosingBrace(_, _, _)
ClosingBrace(ts, i, depth) ==
    IF i > Len(ts) THEN 0
    ELSE IF ts[i] = "{" THEN ClosingBrace(ts, i + 1, depth + 1)
    ELSE IF ts[i] = "}" THEN (IF depth = 1 THEN i ELSE ClosingBrace(ts, i + 1, depth - 1))
    ELSE ClosingBrace(ts, i + 1, depth)
Close == ClosingBrace(toks, 1, 0)
EndsBeforeClose == {<<"{">>, <<"{", "a">>, <<"{", "a", ",">>}

\* What holds when the call has returned.
C12_Returned ==
    Done =>
        /\ res = parse_object(toks, target, Ctx, 1)
        /\ Close = 0 => ~res.ok /\ res.val = NoVal
        /\ toks \in EndsBeforeClose => ~res.ok /\ res.err.kind = "Eof"
        /\ res.ok =>
              /\ res.pos = Close + 1
              /\ res.val.span = Span(1, Close + 1)
              /\ res.val.span.lo <= res.val.span.hi
\* A pass through the loop returns, or moves the cursor on by at least one token
\* and never past the end of the input.
C12_Progress ==
    pc = "loop" =>
        \/ pc' = "done"
        \/ pc' = "loop" /\ loop'.p > loop.p /\ loop'.p <= Len(toks) + 1

\* C12: parse_object finishes on every token stream: each pass through its
\* loop consumes at least one token or returns, so the call returns at last;
\* if the input ends before the closing `}` (`{`, `{ a`, `{ a,`) it returns an
\* error and no node; if it returns a node, the tokens consumed are those from
\* `{` through the `}` that closes it and the node's span runs from the start
\* of the one to the end of the other, with lo <= hi.
C12_Finishes ==
    /\ []C12_Returned
    /\ [][C12_Progress]_vars
    /\ <>Done

\* `{ a,` was parsed to the end of the input and returned the Eof error, the
\* cursor behind the last token.
C12_Witness ==
    /\ Done /\ toks = <<"{", "a", ",">>
    /\ loop.p = 3 /\ ~loop.first
    /\ ~res.ok /\ res.err.kind = "Eof" /\ res.val = NoVal

(* ------------------------------------------------------------------ *)
(* Lexer: characters and tokens                                         *)
(* ------------------------------------------------------------------ *)

\* The source is a sequence of characters; offsets count from 0, so the
\* character at offset i is src[i + 1].
LineTerminators == {"\n", "\r"}
WhiteSpace == {" ", "\t"}
DigitSeq == <<"0", "1", "2", "3", "4", "5", "6", "7", "8", "9">>
Digits == {DigitSeq[i] : i \in 1..10}
DigitVal(c) == (CHOOSE i \in 1..10 : DigitSeq[i] = c) - 1
Letters ==
    {"a", "b", "c", "d", "e", "f", "g", "h", "i", "j", "k", "l", "m", "n", "o", "p",
     "q", "r", "s", "t", "u", "v", "w", "x", "y", "z", "_", "$"}
IdentPart == Letters \cup Digits

\* Word(Keyword(..))
KeywordTexts ==
    {"await", "break", "case", "catch", "class", "const", "continue", "debugger",
     "default", "delete", "do", "else", "export", "extends", "finally", "for",
     "function", "if", "import", "in", "instanceof", "let", "new", "return",
     "super", "switch", "this", "throw", "try", "typeof", "var", "void", "while",
     "with", "yield"}
\* Keywords after which an expression may start.
BeforeExprKeywords ==
    {"await", "case", "default", "do", "else", "return", "throw", "new", "extends",
     "yield", "in", "instanceof", "typeof", "void", "delete"}

BinOpTexts ==
    {"==", "!=", "===", "!==", "<", "<=", ">", ">=", "<<", ">>", ">>>", "+", "-",
     "*", "/", "%", "|", "^", "&", "||", "&&", "**"}
AssignOpTexts ==
    {"=", "+=", "-=", "*=", "/=", "%=", "<<=", ">>=", ">>>=", "|=", "^=", "&=", "**="}
PunctTexts ==
    {"(", ")", "{", "}", "[", "]", ";", ",", ".", ":", "?", "~", "!", "++", "--",
     "=>", "..."}
\* Punctuators after which an expression may start.
BeforeExprPuncts == {"(", "{", "[", ";", ",", ":", "?", "~", "!", "=>", "..."}
OpChars ==
    {"(", ")", "{", "}", "[", "]", ";", ",", ".", ":", "?", "~", "!", "+", "-", "*",
     "%", "<", ">", "=", "&", "|", "^"}

\* A token: its variant; the text of a Word, of an operator or of a Regex
\* pattern, or the kind of an Error; the value of a Num and the digits of its
\* fraction; the flags of a Regex; the span embedded in the token (the Str of
\* a Regex pattern, the span of an Error) and the span of the Regex flags.
NoTok ==
    [type |-> "None", value |-> "", num |-> 0, frac |-> "", flags |-> "",
     ilo |-> 0, ihi |-> 0, flo |-> 0, fhi |-> 0]
WordTok(text) == [NoTok EXCEPT !.type = "Word", !.value = text]
NumTok(n, frac) == [NoTok EXCEPT !.type = "Num", !.num = n, !.frac = frac]
OpTok(text) ==
    [NoTok EXCEPT !.type = CASE text \in BinOpTexts -> "BinOp"
                              [] text \in AssignOpTexts -> "AssignOp"
                              [] OTHER -> "Punct",
                  !.value = text]
RegexTok(pattern, ilo, ihi, flags, flo, fhi) ==
    [NoTok EXCEPT !.type = "Regex", !.value = pattern, !.ilo = ilo, !.ihi = ihi,
                  !.flags = flags, !.flo = flo, !.fhi = fhi]
ErrorTok(kind, lo, hi) ==
    [NoTok EXCEPT !.type = "Error", !.value = kind, !.ilo = lo, !.ihi = hi]

LiteralWords == {"false", "true", "null"}
IsKeyword(tok) == tok.type = "Word" /\ tok.value \in KeywordTexts
IsIdent(tok) == tok.type = "Word" /\ tok.value \notin KeywordTexts \cup LiteralWords
IsWord(tok, text) == tok.type = "Word" /\ tok.value = text
IsPunct(tok, text) == tok.type = "Punct" /\ tok.value = text

\* Token::before_expr
before_expr(tok) ==
    \/ tok.type \in {"BinOp", "AssignOp"}
    \/ tok.type = "Punct" /\ tok.value \in BeforeExprPuncts
    \/ tok.type = "Word" /\ tok.value \in BeforeExprKeywords

(* ------------------------------------------------------------------ *)
(* Lexer: scanning                                                      *)
(* ------------------------------------------------------------------ *)

EOFChar == "<eof>"
CharAt(s, pos) == IF pos < Len(s) THEN s[pos + 1] ELSE EOFChar
\* is_str: the characters of `word` stand at pos.
RECURSIVE IsStr(_, _, _, _)
IsStr(s, pos, word, i) ==
    i > Len(word) \/ (CharAt(s, pos + i - 1) = word[i] /\ IsStr(s, pos, word, i + 1))

\* skip_line_comment: up to, not over, the next line terminator.
RECURSIVE SkipLine(_, _)
SkipLine(s, pos) ==
    IF pos >= Len(s) \/ CharAt(s, pos) \in LineTerminators THEN pos
    ELSE SkipLine(s, pos + 1)

\* skip_block_comment, behind its `/*`: over the closing `*/`.
RECURSIVE SkipBlock(_, _, _)
SkipBlock(s, pos, lb) ==
    IF pos >= Len(s) THEN [ok |-> FALSE, pos |-> pos, lb |-> lb]
    ELSE IF CharAt(s, pos) = "*" /\ CharAt(s, pos + 1) = "/"
    THEN [ok |-> TRUE, pos |-> pos + 2, lb |-> lb]
    ELSE SkipBlock(s, pos + 1, lb \/ CharAt(s, pos) \in LineTerminators)

\* skip_space: white space, line terminators and comments; lb is
\* state.had_line_break.
RECURSIVE SkipSpace(_, _, _)
SkipSpace(s, pos, lb) ==
    LET c == CharAt(s, pos) IN
    CASE c \in WhiteSpace -> SkipSpace(s, pos + 1, lb)
      [] c \in LineTerminators -> SkipSpace(s, pos + 1, TRUE)
      [] c = "/" /\ CharAt(s, pos + 1) = "/" -> SkipSpace(s, SkipLine(s, pos + 2), lb)
      [] c = "/" /\ CharAt(s, pos + 1) = "*" ->
            Let(SkipBlock(s, pos + 2, lb), LAMBDA blk :
                IF blk.ok THEN SkipSpace(s, blk.pos, blk.lb)
                ELSE [ok |-> FALSE, pos |-> blk.pos, lb |-> lb, start |-> pos])
      [] OTHER -> [ok |-> TRUE, pos |-> pos, lb |-> lb, start |-> pos]

\* The run of identifier characters at pos, appended to text.
RECURSIVE ReadWord(_, _, _)
ReadWord(s, pos, text) ==
    IF CharAt(s, pos) \in IdentPart THEN ReadWord(s, pos + 1, text \o CharAt(s, pos))
    ELSE [pos |-> pos, text |-> text]

\* The run of digits at pos: its end, text, decimal and octal values.
RECURSIVE ReadDigits(_, _, _)
ReadDigits(s, pos, acc) ==
    LET c == CharAt(s, pos) IN
    IF c \in Digits
    THEN ReadDigits(s, pos + 1,
                    [text |-> acc.text \o c, n |-> acc.n + 1,
                     dec |-> acc.dec * 10 + DigitVal(c),
                     oct |-> acc.oct * 8 + DigitVal(c),
                     has89 |-> acc.has89 \/ c \in {"8", "9"}, pos |-> pos + 1])
    ELSE acc
NoDigits(pos) == [text |-> "", n |-> 0, dec |-> 0, oct |-> 0, has89 |-> FALSE, pos |-> pos]

\* What read_token returns: the token (NoTok at the end of input), the offset
\* its text starts at, the offset behind it, and state.had_line_break.
Read(tok, start, pos, lb) == [tok |-> tok, start |-> start, pos |-> pos, lb |-> lb]

\* read_number
ReadNumber(s, ctx, start, lb) ==
    Let(ReadDigits(s, start, NoDigits(start)), LAMBDA d :
        IF CharAt(s, start) = "0" /\ d.n > 1 /\ ~d.has89
        THEN \* legacy octal
             IF ctx.strict
             THEN Read(ErrorTok("LegacyOctal", start, d.pos), start, d.pos, lb)
             ELSE Read(NumTok(d.oct, ""), start, d.pos, lb)
        ELSE IF CharAt(s, start) = "0" /\ d.n > 1 /\ ctx.strict
        THEN Read(ErrorTok("LegacyDecimal", start, d.pos), start, d.pos, lb)
        ELSE IF CharAt(s, d.pos) = "."
        THEN Let(ReadDigits(s, d.pos + 1, NoDigits(d.pos + 1)), LAMBDA fr :
                 Read(NumTok(d.dec, fr.text), start, fr.pos, lb))
        ELSE Read(NumTok(d.dec, ""), start, d.pos, lb))

\* The pattern of a regular expression, up to its closing unescaped `/`.
RECURSIVE ScanRegexp(_, _, _)
ScanRegexp(s, pos, text) ==
    LET c == CharAt(s, pos) IN
    CASE pos >= Len(s) \/ c \in LineTerminators -> [ok |-> FALSE, pos |-> pos, text |-> text]
      [] c = "/" -> [ok |-> TRUE, pos |-> pos, text |-> text]
      [] c = "\\" /\ pos + 1 < Len(s) /\ CharAt(s, pos + 1) \notin LineTerminators ->
            ScanRegexp(s, pos + 2, text \o c \o CharAt(s, pos + 1))
      [] c = "\\" -> [ok |-> FALSE, pos |-> pos + 1, text |-> text]
      [] OTHER -> ScanRegexp(s, pos + 1, text \o c)

\* read_regexp, at its opening `/`.
ReadRegexp(s, start, lb) ==
    Let(ScanRegexp(s, start + 1, ""), LAMBDA pat :
        IF ~pat.ok
        THEN Read(ErrorTok("UnterminatedRegxp", start, pat.pos), start, pat.pos, lb)
        ELSE Let(ReadWord(s, pat.pos + 1, ""), LAMBDA fl :
                 Read(RegexTok(pat.text, start + 1, pat.pos,
                               fl.text, IF fl.text = "" THEN 0 ELSE pat.pos + 1,
                               IF fl.text = "" THEN 0 ELSE fl.pos),
                      start, fl.pos, lb)))

\* The longest operator at pos, of at most n characters.
RECURSIVE Chars(_, _, _)
Chars(s, pos, n) == IF n = 0 THEN "" ELSE CharAt(s, pos) \o Chars(s, pos + 1, n - 1)
RECURSIVE ReadOp(_, _, _, _)
ReadOp(s, start, n, lb) ==
    IF n = 1 \/ (start + n <= Len(s)
                 /\ Chars(s, start, n) \in BinOpTexts \cup AssignOpTexts \cup PunctTexts)
    THEN Read(OpTok(Chars(s, start, n)), start, start + n, lb)
    ELSE ReadOp(s, start, n - 1, lb)

\* read_token, with the cursor on a character that starts a token.
RECURSIVE ReadToken(_, _, _, _, _)

\* A legacy HTML comment was read from start up to `end`: an error in a module,
\* and skipped otherwise.
LegacyComment(s, ctx, start, end, lb, exprAllowed) ==
    IF ctx.module
    THEN Read(ErrorTok("LegacyCommentInModule", start, end), start, end, lb)
    ELSE Let(SkipSpace(s, end, lb), LAMBDA sp :
             IF ~sp.ok
             THEN Read(ErrorTok("UnterminatedBlockComment", sp.start, sp.pos),
                       sp.start, sp.pos, sp.lb)
             ELSE IF sp.pos >= Len(s) THEN Read(NoTok, sp.pos, sp.pos, sp.lb)
             ELSE ReadToken(s, ctx, sp.pos, sp.lb, exprAllowed))

ReadToken(s, ctx, start, lb, exprAllowed) ==
    LET c == CharAt(s, start) IN
    CASE c \in Letters ->
            Let(ReadWord(s, start, ""), LAMBDA w :
                Read(WordTok(w.text), start, w.pos, lb))
      [] c \in Digits -> ReadNumber(s, ctx, start, lb)
      [] c = "/" ->
            IF exprAllowed THEN ReadRegexp(s, start, lb)
            ELSE ReadOp(s, start, 2, lb)
      [] c = "<" /\ IsStr(s, start, <<"<", "!", "-", "-">>, 1) ->
            LegacyComment(s, ctx, start, SkipLine(s, start + 4), lb, exprAllowed)
      [] c = "-" /\ lb /\ IsStr(s, start, <<"-", "-", ">">>, 1) ->
            LegacyComment(s, ctx, start, SkipLine(s, start + 3), lb, exprAllowed)
      [] c \in OpChars -> ReadOp(s, start, 4, lb)
      [] OTHER -> Read(ErrorTok("UnexpectedChar", start, start + 1), start, start + 1, lb)

(* ------------------------------------------------------------------ *)
(* Lexer: the state carried between tokens                              *)
(* ------------------------------------------------------------------ *)

\* The syntactic contexts the lexer stacks to tell a regular expression from a
\* division.
ExprContexts == {"BraceExpr", "ParenExpr", "FnExpr"}
StmtContexts == {"BraceStmt", "ParenStmt", "ParenStmtFor"}
is_expr(c) == c \in ExprContexts
Current(context) == IF context = <<>> THEN "None" ELSE context[Len(context)]
Pop(context) == SubSeq(context, 1, Len(context) - 1)

\* Does a `{` behind `prev` open a block (and not an object literal)?
is_brace_block(context, prev, lb, exprAllowed) ==
    CASE IsPunct(prev, ":") /\ Current(context) = "BraceStmt" -> TRUE
      [] IsPunct(prev, ":") /\ Current(context) = "BraceExpr" -> FALSE
      [] IsWord(prev, "return") \/ IsWord(prev, "yield") -> lb
      [] IsWord(prev, "else") \/ IsPunct(prev, ";") \/ IsPunct(prev, ")")
           \/ prev = NoTok -> TRUE
      [] IsPunct(prev, "{") -> Current(context) = "BraceStmt"
      [] OTHER -> ~exprAllowed

Upd(context, exprAllowed) == [context |-> context, is_expr_allowed |-> exprAllowed]

\* May an expression start behind `next`?  Pushes and pops the contexts.
is_expr_allowed_on_next(context, prev, next, lb, exprAllowed) ==
    CASE IsKeyword(next) /\ IsPunct(prev, ".") -> Upd(context, FALSE)
      [] IsPunct(next, ")") \/ IsPunct(next, "}") ->
            IF Len(context) = 1 THEN Upd(context, TRUE)
            ELSE IF Current(context) = "BraceStmt" /\ Current(Pop(context)) = "FnExpr"
            THEN Upd(Pop(Pop(context)), FALSE)
            ELSE Upd(Pop(context), ~is_expr(Current(context)))
      [] IsWord(next, "function") ->
            IF exprAllowed /\ ~is_brace_block(context, prev, lb, exprAllowed)
            THEN Upd(Append(context, "FnExpr"), FALSE)
            ELSE Upd(context, FALSE)
      [] IsIdent(next) -> Upd(context, FALSE)
      [] IsPunct(next, "{") ->
            Upd(Append(context, IF is_brace_block(context, prev, lb, exprAllowed)
                                THEN "BraceStmt" ELSE "BraceExpr"),
                TRUE)
      [] IsPunct(next, "(") ->
            Upd(Append(context,
                       CASE IsWord(prev, "if") \/ IsWord(prev, "with")
                              \/ IsWord(prev, "while") -> "ParenStmt"
                         [] IsWord(prev, "for") -> "ParenStmtFor"
                         [] OTHER -> "ParenExpr"),
                TRUE)
      [] IsPunct(next, "++") \/ IsPunct(next, "--") -> Upd(context, exprAllowed)
      [] OTHER -> Upd(context, before_expr(next))

\* Lexer::new: the lexer before its first token, flags clear.
NewLexer ==
    [phase |-> "lexing",
     ctx |-> [strict |-> FALSE, module |-> FALSE],
     pos |-> 0,
     is_expr_allowed |-> TRUE,
     had_line_break |-> FALSE,
     is_first |-> TRUE,
     context |-> <<"BraceStmt">>,
     token_type |-> NoTok]
\* No lexer.
NoLexer == [NewLexer EXCEPT !.phase = "none"]

TokenAndSpan(token, had_line_break, lo, hi) ==
    [token |-> token, had_line_break |-> had_line_break, lo |-> lo, hi |-> hi]
NoItem == TokenAndSpan(NoTok, FALSE, 0, 0)

\* What Iterator::next leaves: the lexer and the item returned (NoItem for
\* None).
Step(lx, item) == [lexer |-> lx, item |-> item]
AtEnd(lx, pos, lb) ==
    Step([lx EXCEPT !.phase = "end", !.pos = pos, !.had_line_break = lb,
                    !.is_first = FALSE],
         NoItem)
\* state.update: the lexer behind the token just read.
Emit(lx, rd) ==
    Let(is_expr_allowed_on_next(lx.context, lx.token_type, rd.tok, rd.lb,
                                lx.is_expr_allowed),
        LAMBDA up :
            Step([lx EXCEPT !.pos = rd.pos, !.had_line_break = rd.lb,
                            !.is_first = FALSE, !.context = up.context,
                            !.is_expr_allowed = up.is_expr_allowed,
                            !.token_type = rd.tok],
                 TokenAndSpan(rd.tok, rd.lb, rd.start, rd.pos)))

\* Iterator::next for the lexer.  The line-break flag starts out as is_first:
\* the start of the input counts as the start of a line.
next_token(s, lx) ==
    Let(SkipSpace(s, lx.pos, lx.is_first), LAMBDA sp :
        IF ~sp.ok
        THEN Emit(lx, Read(ErrorTok("UnterminatedBlockComment", sp.start, sp.pos),
                           sp.start, sp.pos, sp.lb))
        ELSE IF sp.pos >= Len(s) THEN AtEnd(lx, sp.pos, sp.lb)
        ELSE Let(ReadToken(s, lx.ctx, sp.pos, sp.lb, lx.is_expr_allowed), LAMBDA rd :
                 IF rd.tok = NoTok THEN AtEnd(lx, rd.pos, rd.lb)
                 ELSE Emit(lx, rd)))

(* ------------------------------------------------------------------ *)
(* Lexer: the assertions of lexer/tests.rs                              *)
(* ------------------------------------------------------------------ *)

\* WithSpan::span: the token with its span, no line break before it.
WithSpan(token, lo, hi) == TokenAndSpan(token, FALSE, lo, hi)
\* LineBreak::lb without its update: the item as it is.
LineBreakKept(item) == item
\* LineBreak::lb: the item, with a line break before it.
LineBreak(item) == [item EXCEPT !.had_line_break = TRUE]

\* An assertion: the helper that lexes (lex, lex_module, lex_tokens), the
\* source text, the vector expected, and whether spans are compared.
Case(helper, source, expected, ignoreSpan) ==
    [helper |-> helper, source |-> source, expected |-> expected,
     ignoreSpan |-> ignoreSpan]

module_legacy_octal ==
    Case("lex_module", <<"0", "1">>,
         <<LineBreak(WithSpan(ErrorTok("LegacyOctal", 0, 2), 0, 2))>>,
         FALSE)

module_legacy_decimal ==
    Case("lex_module", <<"0", "8">>,
         <<LineBreak(WithSpan(ErrorTok("LegacyDecimal", 0, 2), 0, 2))>>,
         FALSE)

module_legacy_comment_1 ==
    Case("lex_module", <<"<", "!", "-", "-", " ", "f", "o", "o", " ", "o", "o">>,
         <<LineBreak(WithSpan(ErrorTok("LegacyCommentInModule", 0, 11), 0, 11))>>,
         FALSE)

module_legacy_comment_2 ==
    Case("lex_module", <<"-", "-", ">">>,
         <<LineBreak(WithSpan(ErrorTok("LegacyCommentInModule", 0, 3), 0, 3))>>,
         FALSE)

test262_lexer_error_0001 ==
    Case("lex", <<"1", "2", "3", ".", ".", "a", "(", "1", ")">>,
         <<LineBreak(WithSpan(NumTok(123, ""), 0, 4)),
           WithSpan(OpTok("."), 4, 5),
           WithSpan(WordTok("a"), 5, 6),
           WithSpan(OpTok("("), 6, 7),
           WithSpan(NumTok(1, ""), 7, 8),
           WithSpan(OpTok(")"), 8, 9)>>,
         FALSE)

test262_lexer_error_0004 ==
    Case("lex_tokens", <<"+", "{", "}", " ", "/", " ", "1">>,
         <<OpTok("+"),
           OpTok("{"),
           OpTok("}"),
           OpTok("/"),
           NumTok(1, "")>>,
         FALSE)

regexp_unary_void_1 ==
    Case("lex", <<"v", "o", "i", "d", " ", "/", "t", "e", "s", "t", "/">>,
         <<LineBreak(WithSpan(WordTok("void"), 0, 4)),
           WithSpan(RegexTok("test", 6, 10, "", 0, 0), 5, 11)>>,
         FALSE)

regexp_unary_void_2 ==
    Case("lex", <<"v", "o", "i", "d", " ", "(", "/", "t", "e", "s", "t", "/", ")">>,
         <<LineBreak(WithSpan(WordTok("void"), 0, 4)),
           WithSpan(OpTok("("), 5, 6),
           WithSpan(RegexTok("test", 7, 11, "", 0, 0), 6, 12),
           WithSpan(OpTok(")"), 12, 13)>>,
         FALSE)

non_regexp_unary_plus ==
    Case("lex", <<"+", "{", "}", " ", "/", " ", "1">>,
         <<LineBreak(WithSpan(OpTok("+"), 0, 1)),
           WithSpan(OpTok("{"), 1, 2),
           WithSpan(OpTok("}"), 2, 3),
           WithSpan(OpTok("/"), 4, 5),
           WithSpan(NumTok(1, ""), 6, 7)>>,
         FALSE)

invalid_but_lexable ==
    Case("lex", <<"(", "{", ";">>,
         <<LineBreak(WithSpan(OpTok("("), 0, 1)),
           WithSpan(OpTok("{"), 1, 2),
           WithSpan(OpTok(";"), 2, 3)>>,
         FALSE)

paren_semi ==
    Case("lex", <<"(", ")", ";">>,
         <<LineBreak(WithSpan(OpTok("("), 0, 1)),
           WithSpan(OpTok(")"), 1, 2),
           WithSpan(OpTok(";"), 2, 3)>>,
         FALSE)

ident_paren ==
    Case("lex", <<"a", "(", "b", "c", ")", ";">>,
         <<LineBreak(WithSpan(WordTok("a"), 0, 1)),
           WithSpan(OpTok("("), 1, 2),
           WithSpan(WordTok("bc"), 2, 4),
           WithSpan(OpTok(")"), 4, 5),
           WithSpan(OpTok(";"), 5, 6)>>,
         FALSE)

read_word ==
    Case("lex", <<"a", " ", "b", " ", "c">>,
         <<LineBreak(WithSpan(WordTok("a"), 0, 1)),
           WithSpan(WordTok("b"), 2, 3),
           WithSpan(WordTok("c"), 4, 5)>>,
         FALSE)

simple_regex_1 ==
    Case("lex", <<"x", " ", "=", " ", "/", "4", "2", "/", "i">>,
         <<LineBreak(WithSpan(WordTok("x"), 0, 1)),
           WithSpan(OpTok("="), 2, 3),
           WithSpan(RegexTok("42", 5, 7, "i", 8, 9), 4, 9)>>,
         FALSE)

simple_regex_2 ==
    Case("lex", <<"/", "4", "2", "/">>,
         <<LineBreak(WithSpan(RegexTok("42", 1, 3, "", 0, 0), 0, 4))>>,
         FALSE)

complex_regex ==
    Case("lex_tokens", <<"f", "(", ")", ";", " ", "f", "u", "n", "c", "t", "i", "o", "n", " ", "f",
        "o", "o", "(", ")", " ", "{", "}", " ", "/", "4", "2", "/", "i">>,
         <<WordTok("f"),
           OpTok("("),
           OpTok(")"),
           OpTok(";"),
           WordTok("function"),
           WordTok("foo"),
           OpTok("("),
           OpTok(")"),
           OpTok("{"),
           OpTok("}"),
           RegexTok("42", 0, 0, "i", 0, 0)>>,
         TRUE)

simple_div ==
    Case("lex", <<"a", " ", "/", " ", "b">>,
         <<LineBreak(WithSpan(WordTok("a"), 0, 1)),
           WithSpan(OpTok("/"), 2, 3),
           WithSpan(WordTok("b"), 4, 5)>>,
         FALSE)

complex_divide ==
    Case("lex_tokens", <<"x", " ", "=", " ", "f", "u", "n", "c", "t", "i", "o", "n", " ", "f", "o",
        "o", "(", ")", " ", "{", "}", " ", "/", "a", "/", "i">>,
         <<WordTok("x"),
           OpTok("="),
           WordTok("function"),
           WordTok("foo"),
           OpTok("("),
           OpTok(")"),
           OpTok("{"),
           OpTok("}"),
           OpTok("/"),
           WordTok("a"),
           OpTok("/"),
           WordTok("i")>>,
         FALSE)

spec_001_1 ==
    Case("lex_tokens", <<"a", " ", "=", " ", "b", "\n", "/", "h", "i", "/", "g", ".", "e", "x",
        "e", "c", "(", "c", ")", ".", "m", "a", "p", "(", "d", ")", ";">>,
         <<WordTok("a"),
           OpTok("="),
           WordTok("b"),
           OpTok("/"),
           WordTok("hi"),
           OpTok("/"),
           WordTok("g"),
           OpTok("."),
           WordTok("exec"),
           OpTok("("),
           WordTok("c"),
           OpTok(")"),
           OpTok("."),
           WordTok("map"),
           OpTok("("),
           WordTok("d"),
           OpTok(")"),
           OpTok(";")>>,
         FALSE)

spec_001_2 ==
    Case("lex_tokens", <<"a", " ", "=", " ", "b", " ", "/", " ", "h", "i", " ", "/", " ", "g", ".",
        "e", "x", "e", "c", "(", "c", ")", ".", "m", "a", "p", "(", "d", ")", ";">>,
         <<WordTok("a"),
           OpTok("="),
           WordTok("b"),
           OpTok("/"),
           WordTok("hi"),
           OpTok("/"),
           WordTok("g"),
           OpTok("."),
           WordTok("exec"),
           OpTok("("),
           WordTok("c"),
           OpTok(")"),
           OpTok("."),
           WordTok("map"),
           OpTok("("),
           WordTok("d"),
           OpTok(")"),
           OpTok(";")>>,
         FALSE)

after_if ==
    Case("lex", <<"i", "f", "(", "x", ")", "{", "}", " ", "/", "y", "/", ".", "t", "e", "s", "t",
        "(", "z", ")">>,
         <<LineBreak(WithSpan(WordTok("if"), 0, 2)),
           WithSpan(OpTok("("), 2, 3),
           WithSpan(WordTok("x"), 3, 4),
           WithSpan(OpTok(")"), 4, 5),
           WithSpan(OpTok("{"), 5, 6),
           WithSpan(OpTok("}"), 6, 7),
           WithSpan(RegexTok("y", 9, 10, "", 0, 0), 8, 11),
           WithSpan(OpTok("."), 11, 12),
           WithSpan(WordTok("test"), 12, 16),
           WithSpan(OpTok("("), 16, 17),
           WithSpan(WordTok("z"), 17, 18),
           WithSpan(OpTok(")"), 18, 19)>>,
         FALSE)

empty ==
    Case("lex", <<>>,
         <<>>,
         FALSE)

migrated_0002 ==
    Case("lex", <<"t", "o", "k", "e", "n", "i", "z", "e", "(", "/", "4", "2", "/", ")">>,
         <<LineBreak(WithSpan(WordTok("tokenize"), 0, 8)),
           WithSpan(OpTok("("), 8, 9),
           WithSpan(RegexTok("42", 10, 12, "", 0, 0), 9, 13),
           WithSpan(OpTok(")"), 13, 14)>>,
         FALSE)

\* migrated_0003, had it expected a regular expression behind the `)`.
migrated_0003_regex ==
    Case("lex", <<"(", "f", "a", "l", "s", "e", ")", " ", "/", "4", "2", "/">>,
         <<LineBreak(WithSpan(OpTok("("), 0, 1)),
           WithSpan(WordTok("false"), 1, 6),
           WithSpan(OpTok(")"), 6, 7),
           WithSpan(RegexTok("42", 9, 11, "", 0, 0), 8, 12)>>,
         FALSE)

migrated_0003 ==
    Case("lex", <<"(", "f", "a", "l", "s", "e", ")", " ", "/", "4", "2", "/">>,
         <<LineBreak(WithSpan(OpTok("("), 0, 1)),
           WithSpan(WordTok("false"), 1, 6),
           WithSpan(OpTok(")"), 6, 7),
           WithSpan(OpTok("/"), 8, 9),
           WithSpan(NumTok(42, ""), 9, 11),
           WithSpan(OpTok("/"), 11, 12)>>,
         FALSE)

migrated_0004 ==
    Case("lex", <<"f", "u", "n", "c", "t", "i", "o", "n", " ", "f", "(", ")", "{", "}", " ", "/",
        "4", "2", "/">>,
         <<LineBreak(WithSpan(WordTok("function"), 0, 8)),
           WithSpan(WordTok("f"), 9, 10),
           WithSpan(OpTok("("), 10, 11),
           WithSpan(OpTok(")"), 11, 12),
           WithSpan(OpTok("{"), 12, 13),
           WithSpan(OpTok("}"), 13, 14),
           WithSpan(RegexTok("42", 16, 18, "", 0, 0), 15, 19)>>,
         FALSE)

migrated_0006 ==
    Case("lex", <<"{", "}", " ", "/", "4", "2", "/">>,
         <<LineBreak(WithSpan(OpTok("{"), 0, 1)),
           WithSpan(OpTok("}"), 1, 2),
           WithSpan(RegexTok("42", 4, 6, "", 0, 0), 3, 7)>>,
         FALSE)

LexerTests ==
    <<module_legacy_octal,
     module_legacy_decimal,
     module_legacy_comment_1,
     module_legacy_comment_2,
     test262_lexer_error_0001,
     test262_lexer_error_0004,
     regexp_unary_void_1,
     regexp_unary_void_2,
     non_regexp_unary_plus,
     invalid_but_lexable,
     paren_semi,
     ident_paren,
     read_word,
     simple_regex_1,
     simple_regex_2,
     complex_regex,
     simple_div,
     complex_divide,
     spec_001_1,
     spec_001_2,
     after_if,
     empty,
     migrated_0002,
     migrated_0003,
     migrated_0004,
     migrated_0006>>

(* ------------------------------------------------------------------ *)
(* Lexer: inputs                                                        *)
(* ------------------------------------------------------------------ *)

MaxSrc == 4

\* Line breaks, white space and comments between words.
BreakChars == {"a", " ", "\n", "/", "*"}
\* Slashes behind words, operators, parentheses and braces.
SlashChars == {"a", "/", "(", ")", "{", "}", "+"}
\* Legacy numbers and legacy comments.
LegacyChars == {"0", "1", "8", "<", "!", "-", ">", "\n"}

Texts(alphabet) == UNION {[1..n -> alphabet] : n \in 0..MaxSrc}

\* Longer texts: comments with and without line breaks between two words,
\* legacy forms between other tokens, input that ends inside a comment or a
\* regular expression.
Samples ==
    {<<"a", "/", "*", "\n", "*", "/", "b">>,
     <<"a", "/", "*", " ", "*", "/", "b">>,
     <<"a", " ", "/", "/", "x", "\n", "b", " ", "c">>,
     <<"a", "\r", "\n", "b", " ", "/", "*", "*", "/", " ", "c">>,
     <<"a", " ", "<", "!", "-", "-", "x", "\n", "b">>,
     <<"a", "\n", "-", "-", ">", "x", "\n", "b">>,
     <<"a", " ", "-", "-", ">", "b">>,
     <<"0", "1", " ", "a", "\n", "0", "8">>,
     <<"0", "1", "7", "+", "0", "9", ".", "5">>,
     <<"0", " ", "1", "0">>,
     <<"a", "\n", "/", "*", "\n">>,
     <<"a", "=", "/", "b", "\\", "/", "c", "/", "g", "\n", "/", "d">>,
     <<"a", ".", "v", "o", "i", "d", " ", "/", "b", "/", "c">>}

TestSources == {LexerTests[i].source : i \in DOMAIN LexerTests}

LexInputs ==
    TestSources \cup Samples \cup Texts(BreakChars) \cup Texts(SlashChars)
        \cup Texts(LegacyChars)

(* ------------------------------------------------------------------ *)
(* Lexer: state machine                                                 *)
(* ------------------------------------------------------------------ *)

LexInit ==
    /\ input \in LexInputs
    /\ lexer = NoLexer
    /\ emitted = <<>>
    /\ loop = NoFrame
    /\ toks = <<>>
    /\ strict = FALSE
    /\ frags = <<>>
    /\ layout = "raw"
    /\ pc = "ready"
    /\ target = "none"
    /\ res = NoRes

parserVars == <<toks, strict, frags, layout, target, res, loop>>

\* lex_module with its two assignments left out.
lex_module_flags_clear ==
    /\ lexer.phase = "none"
    /\ lexer' = NewLexer
    /\ pc' = "lex_module"
    /\ UNCHANGED <<input, emitted, parserVars>>

\* with_lexer(s, ..) in lex and lex_tokens: Lexer::new.
lex ==
    /\ lexer.phase = "none"
    /\ lexer' = NewLexer
    /\ pc' = "lex"
    /\ UNCHANGED <<input, emitted, parserVars>>

\* with_lexer(s, ..) in lex_module: Lexer::new, then l.ctx.strict = true;
\* l.ctx.module = true.
lex_module ==
    /\ lexer.phase = "none"
    /\ lexer' = [NewLexer EXCEPT !.ctx = [strict |-> TRUE, module |-> TRUE]]
    /\ pc' = "lex_module"
    /\ UNCHANGED <<input, emitted, parserVars>>

\* One step of l.collect(): Iterator::next, and the item pushed.
LexerNext ==
    /\ lexer.phase = "lexing"
    /\ \E st \in {next_token(input, lexer)} :
          /\ lexer' = st.lexer
          /\ emitted' = IF st.item = NoItem THEN emitted ELSE Append(emitted, st.item)
    /\ UNCHANGED <<input, pc, parserVars>>

LexNext == lex \/ lex_module \/ LexerNext

LexSpec == LexInit /\ [][LexNext]_vars

(* ------------------------------------------------------------------ *)
(* Lexer: vocabulary of the claims                                      *)
(* ------------------------------------------------------------------ *)

LexDone == lexer.phase = "end"
FlagsSet == lexer.ctx.strict /\ lexer.ctx.module
FlagsClear == ~lexer.ctx.strict /\ ~lexer.ctx.module
NEmitted == Len(emitted)
\* l.map(|ts| ts.token)
lex_tokens(items) == [i \in DOMAIN items |-> items[i].token]
\* assert_eq_ignore_span!: tokens with their embedded spans dropped.
IgnoreSpan(tokens) ==
    [i \in DOMAIN tokens |->
        [tokens[i] EXCEPT !.ilo = 0, !.ihi = 0, !.flo = 0, !.fhi = 0]]

\* The assertion t was run to its end, and what it compares.
Ran(t) ==
    /\ LexDone
    /\ input = t.source
    /\ pc = (IF t.helper = "lex_module" THEN "lex_module" ELSE "lex")
Observed(t) ==
    IF t.helper = "lex_tokens"
    THEN (IF t.ignoreSpan THEN IgnoreSpan(lex_tokens(emitted)) ELSE lex_tokens(emitted))
    ELSE emitted
Passes(t) == Ran(t) => Observed(t) = t.expected

\* The end of the token before token i (the start of the input for the first)
\* and the characters between the two.
PrevEnd(i) == IF i = 1 THEN 0 ELSE emitted[i - 1].hi
PrevTok(i) == IF i = 1 THEN NoTok ELSE emitted[i - 1].token
LineTerminatorBetween(lo, hi) ==
    \E p \in lo..(hi - 1) : CharAt(input, p) \in LineTerminators
LegacyKinds == {"LegacyOctal", "LegacyDecimal", "LegacyCommentInModule"}
IsLegacyError(tok) == tok.type = "Error" /\ tok.value \in LegacyKinds

(* ------------------------------------------------------------------ *)
(* C5: the line-break flag                                              *)
(* ------------------------------------------------------------------ *)

HadLineBreaks(items) == [i \in DOMAIN items |-> items[i].had_line_break]
\* The flag of token i says whether a line terminator lies between the end of
\* the token before it and its start.
FlagTellsLineBreak(i) ==
    emitted[i].had_line_break
        <=> LineTerminatorBetween(PrevEnd(i), emitted[i].lo)

\* C5 as the specification states it: for every token emitted, the first one
\* and Error tokens included, had_line_break is true exactly if a line
\* terminator lies between the end of the previous token (the start of the
\* input) and the start of the token.
C5_FlagOfEveryToken == \A i \in 1..NEmitted : FlagTellsLineBreak(i)

\* C5: for every token emitted behind the first, Error tokens included,
\* had_line_break is true exactly if a line terminator lies between the end of
\* the previous token and the start of the token, comments and white space
\* between them changing nothing; the first token of a stream always has
\* had_line_break set, as the vectors of lexer/tests.rs expect.
C5_LineBreakFlag ==
    /\ \A i \in 2..NEmitted : FlagTellsLineBreak(i)
    /\ NEmitted >= 1 => emitted[1].had_line_break
    /\ \A k \in DOMAIN LexerTests :
          Ran(LexerTests[k]) /\ LexerTests[k].helper # "lex_tokens"
              => HadLineBreaks(emitted) = HadLineBreaks(LexerTests[k].expected)

\* A line break inside a block comment sets the flag of the word behind it, a
\* block comment without one does not, and the first word has the flag set.
C5_Witness ==
    /\ LexDone
    /\ input = <<"a", "\r", "\n", "b", " ", "/", "*", "*", "/", " ", "c">>
    /\ HadLineBreaks(emitted) = <<TRUE, TRUE, FALSE>>

(* ------------------------------------------------------------------ *)
(* C6: regular expression or division                                   *)
(* ------------------------------------------------------------------ *)

\* The character at p, inside a pattern that starts at from, is escaped.
RECURSIVE Escaped(_, _)
Escaped(from, p) ==
    p > from /\ CharAt(input, p - 1) = "\\" /\ ~Escaped(from, p - 1)

\* The Regex item spans `/`, the pattern up to the first unescaped `/`, that
\* `/`, and the run of identifier characters behind it.
RegexShape(item) ==
    LET t == item.token IN
    /\ CharAt(input, item.lo) = "/"
    /\ t.ilo = item.lo + 1
    /\ t.ihi >= t.ilo /\ t.ihi < item.hi
    /\ CharAt(input, t.ihi) = "/" /\ ~Escaped(t.ilo, t.ihi)
    /\ \A p \in t.ilo..(t.ihi - 1) :
          /\ CharAt(input, p) \notin LineTerminators
          /\ CharAt(input, p) = "/" => Escaped(t.ilo, p)
    /\ t.value = Chars(input, t.ilo, t.ihi - t.ilo)
    /\ t.flags = Chars(input, t.ihi + 1, item.hi - t.ihi - 1)
    /\ \A p \in (t.ihi + 1)..(item.hi - 1) : CharAt(input, p) \in IdentPart
    /\ CharAt(input, item.hi) \notin IdentPart

\* Token i was read at a `/` that does not open a comment.
ReadAtSlash(i) ==
    /\ CharAt(input, emitted[i].lo) = "/"
    /\ ~(emitted[i].token.type = "Error"
         /\ emitted[i].token.value = "UnterminatedBlockComment")
\* `void` as a keyword, not as the name of a member.
IsVoid(i) == i >= 1 /\ IsWord(emitted[i].token, "void") /\ ~IsPunct(PrevTok(i), ".")

\* C6: a token read at `/` is a regular expression (or the error of one that
\* does not end) at the start of the input, after an operator, after `(` and
\* after `void`, and it is a division after an identifier; a Regex token holds
\* the pattern up to the closing unescaped `/` and then the flags; and the
\* vectors of lexer/tests.rs hold, among them `{} /42/`, `if(x){} /y/` and
\* `function f(){} /42/` with a Regex, `(false) /42/`, `+{} / 1` and
\* `x = function foo() {} /a/i` with Div.
C6_RegexOrDivision ==
    /\ \A i \in 1..NEmitted :
          /\ emitted[i].token.type = "Regex" => RegexShape(emitted[i])
          /\ ReadAtSlash(i) =>
                /\ (\/ i = 1
                    \/ PrevTok(i).type \in {"BinOp", "AssignOp"}
                    \/ IsPunct(PrevTok(i), "(")
                    \/ IsVoid(i - 1))
                      => emitted[i].token.type \in {"Regex", "Error"}
                /\ IsIdent(PrevTok(i)) => emitted[i].token.type \in {"BinOp", "AssignOp"}
    /\ \A k \in DOMAIN LexerTests : Passes(LexerTests[k])

\* `{} /42/` was lexed to its end: `{`, `}` and one Regex.
C6_Witness ==
    /\ Ran(migrated_0006)
    /\ NEmitted = 3
    /\ emitted[3].token.type = "Regex" /\ emitted[3].token.value = "42"
    /\ emitted[3].lo = 3 /\ emitted[3].hi = 7

(* ------------------------------------------------------------------ *)
(* C7: legacy forms                                                     *)
(* ------------------------------------------------------------------ *)

\* A legacy number stands at lo: 0 and at least one more digit.  It ends at hi.
LegacyNumberAt(lo) == CharAt(input, lo) = "0" /\ CharAt(input, lo + 1) \in Digits
LegacyNumberEnds(lo, hi) ==
    /\ \A p \in lo..(hi - 1) : CharAt(input, p) \in Digits
    /\ CharAt(input, hi) \notin Digits
LegacyNumberKind(lo, hi) ==
    IF \E p \in lo..(hi - 1) : CharAt(input, p) \in {"8", "9"}
    THEN "LegacyDecimal" ELSE "LegacyOctal"
\* A legacy comment stands at the start of an item: `<!--`, or `-->` behind a
\* line break.  It ends with its line.
LegacyCommentAt(item) ==
    \/ IsStr(input, item.lo, <<"<", "!", "-", "-">>, 1)
    \/ item.had_line_break /\ IsStr(input, item.lo, <<"-", "-", ">">>, 1)
LineEnds(lo, hi) ==
    /\ ~LineTerminatorBetween(lo, hi)
    /\ hi = Len(input) \/ CharAt(input, hi) \in LineTerminators

MatchError(item, kind) ==
    /\ item.token.type = "Error" /\ item.token.value = kind
    /\ item.token.ilo = item.lo /\ item.token.ihi = item.hi

LegacyTests ==
    <<module_legacy_octal, module_legacy_decimal, module_legacy_comment_1,
      module_legacy_comment_2>>

\* C7: with the strict and module flags set, a legacy number and a legacy
\* comment each give one Error token of the matching kind whose span and whose
\* embedded span cover the whole construct (`01`, `08`, `<!-- foo oo` and `-->`
\* as lexer/tests.rs expects), and the lexer goes on to the end of the input;
\* with the flags clear no legacy Error token is emitted: a legacy number is a
\* Num, and no token starts at a legacy comment.
C7_LegacyForms ==
    /\ \A k \in DOMAIN LegacyTests : Passes(LegacyTests[k])
    /\ FlagsSet =>
          \A i \in 1..NEmitted :
             LET item == emitted[i] IN
             /\ LegacyNumberAt(item.lo) =>
                   /\ LegacyNumberEnds(item.lo, item.hi)
                   /\ MatchError(item, LegacyNumberKind(item.lo, item.hi))
             /\ LegacyCommentAt(item) =>
                   /\ LineEnds(item.lo, item.hi)
                   /\ MatchError(item, "LegacyCommentInModule")
             /\ IsLegacyError(item.token) => LegacyNumberAt(item.lo) \/ LegacyCommentAt(item)
    /\ FlagsClear =>
          \A i \in 1..NEmitted :
             LET item == emitted[i] IN
             /\ ~IsLegacyError(item.token)
             /\ LegacyNumberAt(item.lo) => item.token.type = "Num"
             /\ ~LegacyCommentAt(item)
    /\ \A k \in DOMAIN LegacyTests :
          (LexDone /\ pc = "lex" /\ input = LegacyTests[k].source) =>
              emitted = CASE k = 1 -> <<LineBreak(WithSpan(NumTok(1, ""), 0, 2))>>
                          [] k = 2 -> <<LineBreak(WithSpan(NumTok(8, ""), 0, 2))>>
                          [] OTHER -> <<>>
    /\ LexDone => lexer.pos = Len(input)

\* With the flags set, `01 a` and `08` on the next line were lexed to the end:
\* an Error, the word, an Error.
C7_Witness ==
    /\ LexDone /\ pc = "lex_module" /\ FlagsSet
    /\ input = <<"0", "1", " ", "a", "\n", "0", "8">>
    /\ NEmitted = 3
    /\ MatchError(emitted[1], "LegacyOctal")
    /\ IsIdent(emitted[2].token)
    /\ MatchError(emitted[3], "LegacyDecimal") /\ emitted[3].lo = 5 /\ emitted[3].hi = 7

====
